---- MODULE Spec2Model ----
(***************************************************************************)
(* Campus Crush backend: the request handlers of routes/matches (swipe),   *)
(* routes/notifications, routes/confessions, routes/photos and routes/chat *)
(* over the document stores they read and write.                           *)
(*                                                                         *)
(* db holds the collections.  Every collection is a sequence of documents  *)
(* in insertion order; the _id of a document is its position and findOne   *)
(* returns the first match.                                                *)
(*                                                                         *)
(* A handler is a chain of operators, one per stretch of code that runs    *)
(* without yielding: from one awaited store operation up to the next       *)
(* await.  Each takes the stores and the request's locals and returns the  *)
(* stores, the locals and the response, if the stretch answered.  A        *)
(* request served alone runs its chain to the end in one action; requests  *)
(* served together occupy a slot of rq each and take one stretch per       *)
(* action.                                                                 *)
(***************************************************************************)
EXTENDS Integers, Sequences, FiniteSets, TLC

VARIABLES db, rq, last, nreq

vars == <<db, rq, last, nreq>>

\* ------------------------------------------------------------------ bounds
NumUsers     == 3  \* registered users
NumProcs     == 2  \* requests that can be in flight together
MaxReq       == 2  \* swipe requests of one behaviour, served alone
MaxNotifReq  == 3  \* swipe and notification requests of one behaviour
MaxConfReq   == 3  \* confession requests of one behaviour, served alone
MaxPhotoReq  == 3  \* photo requests of one behaviour
MaxChatReq   == 3  \* swipe and chat requests of one behaviour
MaxMsgSwipes == 2  \* swipes of one behaviour of the message requests
MaxMsgReq    == 5  \* swipe and message requests of one behaviour
MaxAuthReq   == 3  \* account requests of one behaviour
MaxClock     == 1  \* hours that pass in one behaviour
MaxFeedReq   == 3  \* confessions posted and listed in one behaviour
MaxCommentReq == 3 \* confessions, comments and replies of one behaviour
MaxInboxReq  == 3  \* swipes and notification reads of one behaviour
MaxFaultReq  == 2  \* likes of one behaviour in which the store can fail
MaxChatConc  == 4  \* likes, then messages sent together, of one behaviour
MaxConc      == 2  \* swipe requests of one behaviour, served together
MaxConcReact == 3  \* confession requests of one behaviour, served together

UserIds == 1..NumUsers
NoUser  == 0       \* a well-formed id that matches no user record
Procs   == 1..NumProcs

\* ----------------------------------------------------------------- helpers
\* positions of the documents of a collection that satisfy a query
Matching(coll, Q(_)) == {i \in 1..Len(coll) : Q(coll[i])}

\* Model.findOne: the first matching document's position, 0 for null
FindOne(coll, Q(_)) ==
    IF Matching(coll, Q) = {} THEN 0
    ELSE CHOOSE i \in Matching(coll, Q) : \A j \in Matching(coll, Q) : i <= j

\* Model.updateMany(query, update)
UpdateMany(coll, Q(_), Upd(_)) ==
    [i \in 1..Len(coll) |-> IF Q(coll[i]) THEN Upd(coll[i]) ELSE coll[i]]

\* jwt.sign({ userId }, ...): the payload a token of login/register carries
generateToken(userId) == [userId |-> userId]

None == [op |-> "none"]
Idle == [op |-> "none", pc |-> "idle"]

\* the handler awaits its next store operation
Await(w, r) == [db |-> w, rq |-> r, out |-> None]
\* res.status(...).json(...): the handler has answered
Answer(w, resp) == [db |-> w, rq |-> Idle, out |-> resp]

\* new Date()
Now == nreq + 1

\* auth middleware of routes/matches, notifications, chat and users:
\* jwt.verify and User.findById(decoded.userId)
auth(w, token) == token.userId \in w.users

\* auth middleware of routes/confessions and routes/photos: req.user is the
\* decoded payload, no user record is looked up (JWT_SECRET is configured, so
\* the tokens generateToken signs verify)
authDecoded(token) == token

\* obj.field as javascript reads it: undefined when the object has no such field
Undefined == "undefined"
Field(obj, f) == IF f \in DOMAIN obj THEN obj[f] ELSE Undefined

\* the college registration derives from the e-mail domain of the account
College(u) == IF u % 2 = 1 THEN "ABC" ELSE "XYZ"

\* ------------------------------------------------------- matches: swipe
SwipeActions == {"like", "pass", "superlike"}
Likes == {"like", "superlike"}

\* Swipe.findOne({ swiper, swiped })
FindSwipe(coll, swiper, swiped) ==
    FindOne(coll, LAMBDA d : d.swiper = swiper /\ d.swiped = swiped)

\* a plausible slip: only a superlike counts as the reciprocal swipe
FindReciprocalSuperlike(coll, swiper, target) ==
    FindOne(coll, LAMBDA d : /\ d.swiper = target /\ d.swiped = swiper
                             /\ d.action = "superlike")

\* Swipe.findOne({ swiper: target, swiped: swiper, action: { $in: [...] } })
FindReciprocal(coll, swiper, target) ==
    FindOne(coll, LAMBDA d : d.swiper = target /\ d.swiped = swiper
                               /\ d.action \in Likes)

\* a plausible slip: only the orientation the caller would create is looked up
FindActiveMatchOneWay(coll, a, b) ==
    FindOne(coll, LAMBDA d : d.user1 = a /\ d.user2 = b /\ d.status = "active")

\* Match.findOne({ $or: [{user1: a, user2: b}, {user1: b, user2: a}], status })
FindActiveMatch(coll, a, b) ==
    FindOne(coll, LAMBDA d : /\ \/ (d.user1 = a /\ d.user2 = b)
                                 \/ (d.user1 = b /\ d.user2 = a)
                              /\ d.status = "active")

\* the response of a swipe request
SwipeResponse(r, status, isMatch, matchId) ==
    [op |-> "swipe", caller |-> r.caller, target |-> r.target,
     action |-> r.action, status |-> status, isMatch |-> isMatch,
     matchId |-> matchId]

\* auth middleware and the handler up to its first store read
SwipeBegin(w, caller, target, action) ==
    LET r == [op |-> "swipe", pc |-> "findSwipe", caller |-> caller,
              target |-> target, action |-> action, existingSwipe |-> 0,
              matchId |-> 0]
    IN  IF ~auth(w, generateToken(caller))
        THEN Answer(w, SwipeResponse(r, 401, FALSE, 0))
        ELSE IF action \notin SwipeActions \/ caller = target
        THEN Answer(w, SwipeResponse(r, 400, FALSE, 0))
        ELSE IF target \notin w.users
        THEN Answer(w, SwipeResponse(r, 404, FALSE, 0))
        ELSE Await(w, r)

\* const existingSwipe = await Swipe.findOne(...)
SwipeFindExisting(w, r) ==
    Await(w, [r EXCEPT !.existingSwipe = FindSwipe(w.swipes, r.caller, r.target),
                       !.pc = "saveSwipe"])

\* a plausible slip: a repeat swipe keeps the action it first recorded
SaveSwipeKeepAction(coll, existing, swiper, swiped, action) ==
    IF existing # 0
    THEN coll
    ELSE Append(coll, [swiper |-> swiper, swiped |-> swiped, action |-> action])

\* existingSwipe.action = action; save()   or   new Swipe({...}).save()
SaveSwipe(coll, existing, swiper, swiped, action) ==
    IF existing # 0
    THEN [coll EXCEPT ![existing].action = action]
    ELSE Append(coll, [swiper |-> swiper, swiped |-> swiped, action |-> action])

\* the unique index { swiper: 1, swiped: 1 } rejects the insert of a second
\* document for a pair (E11000, the handler's catch answers 500)
SwipeIndexRejects(coll, existing, swiper, swiped) ==
    existing = 0 /\ FindSwipe(coll, swiper, swiped) # 0

\* await existingSwipe.save() / await swipe.save()
SwipeSave(w, r) ==
    IF SwipeIndexRejects(w.swipes, r.existingSwipe, r.caller, r.target)
    THEN Answer(w, SwipeResponse(r, 500, FALSE, 0))
    ELSE Await([w EXCEPT !.swipes = SaveSwipe(w.swipes, r.existingSwipe,
                                              r.caller, r.target, r.action)],
               [r EXCEPT !.pc = IF r.action = "like" \/ r.action = "superlike"
                                THEN "findReciprocal" ELSE "likeNotification"])

\* const reciprocalSwipe = await Swipe.findOne(...)
SwipeFindReciprocal(w, r) ==
    IF FindReciprocal(w.swipes, r.caller, r.target) # 0
    THEN Await(w, [r EXCEPT !.pc = "findMatch"])
    ELSE Answer(w, SwipeResponse(r, 200, FALSE, 0))

\* const existingMatch = await Match.findOne(...)
SwipeFindMatch(w, r) ==
    LET existingMatch == FindActiveMatch(w.matches, r.caller, r.target)
    IN  IF existingMatch # 0
        THEN Answer(w, SwipeResponse(r, 200, TRUE, existingMatch))
        ELSE Await(w, [r EXCEPT !.pc = "saveMatch"])

\* new Match({ user1: swiperId, user2: targetUserId, ... })
NewMatch(swiper, target) ==
    [user1 |-> swiper, user2 |-> target, status |-> "active",
     lastMessage |-> None, lastActivity |-> Now]

\* await match.save(); matchId = match._id; await User.findById(swiperId)
SwipeSaveMatch(w, r) ==
    Await([w EXCEPT !.matches = Append(@, NewMatch(r.caller, r.target))],
          [r EXCEPT !.matchId = Len(w.matches) + 1,
                    !.pc = "matchNotifications"])

\* a plausible slip: only the swiper's notification is built
MatchNotificationToSwiper(swiper, target, matchId) ==
    << [recipient |-> swiper, sender |-> target, type |-> "match",
        matchId |-> matchId, isRead |-> FALSE, readAt |-> 0] >>

\* the two documents handed to Notification.insertMany
MatchNotifications(swiper, target, matchId) ==
    << [recipient |-> swiper, sender |-> target, type |-> "match",
        matchId |-> matchId, isRead |-> FALSE, readAt |-> 0],
       [recipient |-> target, sender |-> swiper, type |-> "match",
        matchId |-> matchId, isRead |-> FALSE, readAt |-> 0] >>

\* await Notification.insertMany(notifications); res.json(...)
SwipeInsertNotifications(w, r) ==
    Answer([w EXCEPT !.notifs =
                @ \o MatchNotifications(r.caller, r.target, r.matchId)],
           SwipeResponse(r, 200, TRUE, r.matchId))

\* new Notification({ recipient: targetUserId, sender: swiperId, type: 'like' })
LikeNotification(swiper, target) ==
    [recipient |-> target, sender |-> swiper, type |-> "like",
     matchId |-> 0, isRead |-> FALSE, readAt |-> 0]

\* the else branch of `if (action === 'like' || action === 'superlike')`:
\* await new Notification({...}).save(); res.json(...)
SwipeSaveLikeNotification(w, r) ==
    Answer([w EXCEPT !.notifs = Append(@, LikeNotification(r.caller, r.target))],
           SwipeResponse(r, 200, FALSE, 0))

\* router.post('/swipe'): the stretch a suspended request resumes with
\* the awaited store operation rejects: the handler's catch answers 500
SwipeRejected(w, r) ==
    Answer(w, SwipeResponse(r, 500, FALSE, 0))

SwipeStep(w, r) ==
    CASE r.pc = "findSwipe"          -> SwipeFindExisting(w, r)
      [] r.pc = "saveSwipe"          -> SwipeSave(w, r)
      [] r.pc = "findReciprocal"     -> SwipeFindReciprocal(w, r)
      [] r.pc = "findMatch"          -> SwipeFindMatch(w, r)
      [] r.pc = "saveMatch"          -> SwipeSaveMatch(w, r)
      [] r.pc = "matchNotifications" -> SwipeInsertNotifications(w, r)
      [] r.pc = "likeNotification"   -> SwipeSaveLikeNotification(w, r)

\* router.get('/:matchId'): Match.findById, then the participant test
GetMatch(w, caller, matchId) ==
    LET resp == [op |-> "getMatch", caller |-> caller, matchId |-> matchId]
    IN  IF ~auth(w, generateToken(caller))
        THEN Answer(w, resp @@ [status |-> 401])
        ELSE IF matchId \notin 1..Len(w.matches)
        THEN Answer(w, resp @@ [status |-> 404])
        ELSE IF /\ w.matches[matchId].user1 # caller
                /\ w.matches[matchId].user2 # caller
        THEN Answer(w, resp @@ [status |-> 403])
        ELSE Answer(w, resp @@ [status |-> 200])

\* --------------------------------------------------------- notifications
\* a plausible slip: the recipient is left out of the query
MarkAllReadAnyRecipient(coll, userId, now) ==
    UpdateMany(coll, LAMBDA d : ~d.isRead,
               LAMBDA d : [d EXCEPT !.isRead = TRUE, !.readAt = now])

\* Notification.updateMany({ recipient: userId, isRead: false },
\*                         { isRead: true, readAt: new Date() })
MarkAllRead(coll, userId, now) ==
    UpdateMany(coll, LAMBDA d : d.recipient = userId /\ ~d.isRead,
               LAMBDA d : [d EXCEPT !.isRead = TRUE, !.readAt = now])

\* router.put('/mark-all-read')
NotificationsMarkAllRead(w, caller) ==
    LET resp == [op |-> "markAllRead", caller |-> caller]
    IN  IF ~auth(w, generateToken(caller))
        THEN Answer(w, resp @@ [status |-> 401])
        ELSE Answer([w EXCEPT !.notifs = MarkAllRead(@, caller, Now)],
                    resp @@ [status |-> 200])

\* router.put('/:id/read'): Notification.findOneAndUpdate(
\*   { _id: id, recipient: userId }, { isRead: true, readAt: new Date() })
NotificationsMarkRead(w, caller, id) ==
    LET resp == [op |-> "markRead", caller |-> caller, id |-> id]
    IN  IF ~auth(w, generateToken(caller))
        THEN Answer(w, resp @@ [status |-> 401])
        ELSE IF id \in 1..Len(w.notifs) /\ w.notifs[id].recipient = caller
        THEN Answer([w EXCEPT !.notifs[id].isRead = TRUE,
                              !.notifs[id].readAt = Now],
                    resp @@ [status |-> 200])
        ELSE Answer(w, resp @@ [status |-> 404])

PageSize == 20

\* the ids of the documents that { recipient } and, when given, { type } and
\* { isRead: false } select
NotificationQuery(coll, userId, type, unreadOnly) ==
    Matching(coll, LAMBDA d : /\ d.recipient = userId
                              /\ (type # "" => d.type = type)
                              /\ (unreadOnly => ~d.isRead))

\* .sort({ createdAt: -1 }).limit(page * 20): documents are stamped as they
\* are stored, so the newest is the one stored last
RECURSIVE LatestFirst(_)
LatestFirst(ids) ==
    IF ids = {} THEN <<>>
    ELSE LET m == CHOOSE i \in ids : \A j \in ids : i >= j
         IN  <<m>> \o LatestFirst(ids \ {m})

\* router.get('/'): unreadCount is counted over the notifications returned
NotificationsList(w, caller, page, type, unreadOnly) ==
    LET resp == [op |-> "listNotifications", caller |-> caller,
                 page |-> page, type |-> type, unreadOnly |-> unreadOnly]
    IN  IF ~auth(w, generateToken(caller))
        THEN Answer(w, resp @@ [status |-> 401, notifications |-> <<>>,
                                unreadCount |-> 0])
        ELSE LET found == LatestFirst(NotificationQuery(w.notifs, caller,
                                                        type, unreadOnly))
                 notifications ==
                     SubSeq(found, 1, IF Len(found) < page * PageSize
                                      THEN Len(found) ELSE page * PageSize)
             IN  Answer(w, resp @@
                    [status |-> 200, notifications |-> notifications,
                     unreadCount |->
                        Cardinality({k \in 1..Len(notifications) :
                                       ~w.notifs[notifications[k]].isRead})])

\* router.get('/unread-count'): Notification.countDocuments
NotificationsUnreadCount(w, caller) ==
    LET resp == [op |-> "unreadCount", caller |-> caller]
    IN  IF ~auth(w, generateToken(caller))
        THEN Answer(w, resp @@ [status |-> 401, unreadCount |-> 0])
        ELSE Answer(w, resp @@
                [status |-> 200,
                 unreadCount |->
                    Cardinality(NotificationQuery(w.notifs, caller, "", TRUE))])

\* ---------------------------------------------- matches: list and unmatch
\* Match.find({ $or: [{ user1: userId }, { user2: userId }], status: 'active' })
FindMatchesOf(coll, userId) ==
    Matching(coll, LAMBDA d : /\ (d.user1 = userId \/ d.user2 = userId)
                              /\ d.status = "active")

\* .sort({ lastActivity: -1 }): the latest activity first, ties in insertion
\* order
RECURSIVE ByLastActivity(_, _)
ByLastActivity(coll, ids) ==
    IF ids = {} THEN <<>>
    ELSE LET m == CHOOSE i \in ids : \A j \in ids :
                     \/ coll[i].lastActivity > coll[j].lastActivity
                     \/ coll[i].lastActivity = coll[j].lastActivity /\ i <= j
         IN  <<m>> \o ByLastActivity(coll, ids \ {m})

\* Message.countDocuments({ match, sender: otherUser._id, readBy: { $ne: userId } })
UnreadOf(w, matchId, userId) ==
    Cardinality(Matching(w.messages,
                         LAMBDA d : /\ d.match = matchId
                                    /\ d.sender # userId
                                    /\ userId \notin d.readBy))

\* router.get('/'): the caller's active matches, with the last message and the
\* unread count of each
GetMatches(w, caller, page) ==
    LET resp == [op |-> "getMatches", caller |-> caller, page |-> page]
    IN  IF ~auth(w, generateToken(caller))
        THEN Answer(w, resp @@ [status |-> 401, matches |-> <<>>])
        ELSE LET found == ByLastActivity(w.matches,
                                         FindMatchesOf(w.matches, caller))
                 n == IF Len(found) < page * PageSize
                      THEN Len(found) ELSE page * PageSize
             IN  Answer(w, resp @@
                    [status |-> 200,
                     matches |->
                        [k \in 1..n |->
                           [matchId |-> found[k],
                            lastMessage |->
                               IF w.matches[found[k]].lastMessage = None
                               THEN "Say hello!"
                               ELSE w.matches[found[k]].lastMessage.content,
                            unreadCount |-> UnreadOf(w, found[k], caller)]]])

\* a plausible slip: the unmatch request ends the match
UnmatchEnding(w, caller, matchId, reason) ==
    LET resp == [op |-> "unmatch", caller |-> caller, matchId |-> matchId]
    IN  IF ~auth(w, generateToken(caller))
        THEN Answer(w, resp @@ [status |-> 401])
        ELSE Answer([w EXCEPT !.matches =
                        UpdateMany(@, LAMBDA d : d = w.matches[matchId],
                                   LAMBDA d : [d EXCEPT !.status = "unmatched"])],
                    resp @@ [status |-> 200])

\* router.delete('/:matchId'): the request is logged and answered, no store
\* operation is made
Unmatch(w, caller, matchId, reason) ==
    LET resp == [op |-> "unmatch", caller |-> caller, matchId |-> matchId]
    IN  IF ~auth(w, generateToken(caller))
        THEN Answer(w, resp @@ [status |-> 401])
        ELSE Answer(w, resp @@ [status |-> 200])

\* ------------------------------------------------------------ confessions
ReactionTypes == {"heart", "laugh", "fire", "sad"}

\* confession.reactions.filter(reaction => reaction.userId.toString() !== userId)
WithoutUser(reactions, userId) ==
    SelectSeq(reactions, LAMBDA x : x.userId # userId)

\* a plausible slip: the user's other reaction is not removed before the push
ToggleReactionKeepOthers(reactions, userId, type) ==
    LET existing == FindOne(reactions,
                            LAMBDA x : x.userId = userId /\ x.type = type)
    IN  IF existing # 0
        THEN SubSeq(reactions, 1, existing - 1)
               \o SubSeq(reactions, existing + 1, Len(reactions))
        ELSE Append(reactions, [userId |-> userId, type |-> type])

\* a plausible slip: a repeated reaction is stored again instead of removed
ToggleReactionNeverOff(reactions, userId, type) ==
    Append(WithoutUser(reactions, userId), [userId |-> userId, type |-> type])

\* findIndex of the user's reaction of this type; splice it out, or drop the
\* user's other reaction and push the new one
ToggleReaction(reactions, userId, type) ==
    LET existing == FindOne(reactions,
                            LAMBDA x : x.userId = userId /\ x.type = type)
    IN  IF existing # 0
        THEN SubSeq(reactions, 1, existing - 1)
               \o SubSeq(reactions, existing + 1, Len(reactions))
        ELSE Append(WithoutUser(reactions, userId),
                    [userId |-> userId, type |-> type])

\* the reactionCounts the handler tallies, for one type
ReactionCount(reactions, type) ==
    Cardinality(Matching(reactions, LAMBDA x : x.type = type))

ValidCategories == {"crush", "academic", "funny", "support", "general"}

\* content.trim().length of the bodies the requests carry
TrimLen(content) ==
    CASE content = "test" -> 4
      [] content = "hi"   -> 2
      [] content = "hey"  -> 3
      [] content = " "    -> 0
      [] OTHER            -> 0

\* router.post('/'): validation, User.findById, new Confession({...})
ConfessionCreateBegin(w, caller, content, category) ==
    LET userId == authDecoded(generateToken(caller)).userId
        r == [op |-> "createConfession", pc |-> "saveConfession",
              caller |-> userId, content |-> content, category |-> category]
        resp == [op |-> "createConfession", caller |-> userId,
                 content |-> content, category |-> category, id |-> 0]
    IN  IF TrimLen(content) = 0 \/ TrimLen(content) < 3
        THEN Answer(w, resp @@ [status |-> 400])
        ELSE IF category \notin ValidCategories
        THEN Answer(w, resp @@ [status |-> 400])
        ELSE IF userId \notin w.users
        THEN Answer(w, resp @@ [status |-> 404])
        ELSE Await(w, r)

\* await confession.save(); res.status(201).json(...)
ConfessionSave(w, r) ==
    Answer([w EXCEPT !.confessions =
              Append(@, [userId |-> r.caller, content |-> r.content,
                         category |-> r.category, college |-> College(r.caller),
                         reactions |-> <<>>, comments |-> <<>>,
                         isReported |-> FALSE, version |-> 0,
                         createdAt |-> Now])],
           [op |-> "createConfession", caller |-> r.caller,
            content |-> r.content, category |-> r.category,
            id |-> Len(w.confessions) + 1, status |-> 201])

\* the response of a react request; before is the reactions list it found
ReactResponse(r, status) ==
    [op |-> "react", caller |-> r.caller, id |-> r.id, type |-> r.type,
     status |-> status, before |-> r.before, userReacted |-> r.userReacted]

\* router.post('/:id/react') up to Confession.findById
ReactBegin(w, caller, id, type) ==
    LET userId == authDecoded(generateToken(caller)).userId
        r == [op |-> "react", pc |-> "findConfession", caller |-> userId,
              id |-> id, type |-> type, before |-> <<>>, reactions |-> <<>>,
              version |-> 0, userReacted |-> FALSE]
    IN  IF type \notin ReactionTypes
        THEN Answer(w, ReactResponse(r, 400))
        ELSE Await(w, r)

\* const confession = await Confession.findById(confessionId); the toggle is
\* applied to the document in memory
ReactFind(w, r) ==
    IF r.id \notin 1..Len(w.confessions)
    THEN Answer(w, ReactResponse(r, 404))
    ELSE LET doc == w.confessions[r.id] IN
         Await(w, [r EXCEPT
            !.pc = "saveReactions",
            !.before = doc.reactions,
            !.reactions = ToggleReaction(doc.reactions, r.caller, r.type),
            !.version = doc.version,
            !.userReacted =
               FindOne(doc.reactions,
                       LAMBDA x : x.userId = r.caller /\ x.type = r.type) = 0])

\* await confession.save(): the reactions array is written whole, and a save
\* that rewrites an array carries the version the document was read with
\* (the schema keeps the versionKey); another save in between makes it fail and
\* the catch answers 500
ReactSave(w, r) ==
    IF w.confessions[r.id].version # r.version
    THEN Answer(w, ReactResponse(r, 500))
    ELSE Answer([w EXCEPT !.confessions[r.id].reactions = r.reactions,
                          !.confessions[r.id].version = @ + 1],
                ReactResponse(r, 200))

\* a plausible slip: the query is not restricted to the caller's college
ConfessionQueryAnyCollege(coll, college, category) ==
    Matching(coll, LAMBDA d : /\ ~d.isReported
                              /\ (category # "all" => d.category = category))

\* the ids of the documents that { college, isReported: false } and, unless
\* the category is 'all', { category } select
ConfessionQuery(coll, college, category) ==
    Matching(coll, LAMBDA d : /\ d.college = college
                              /\ ~d.isReported
                              /\ (category # "all" => d.category = category))

\* .sort({ createdAt: -1 }): the newest first
RECURSIVE NewestFirst(_, _)
NewestFirst(coll, ids) ==
    IF ids = {} THEN <<>>
    ELSE LET m == CHOOSE i \in ids :
                    \A j \in ids : \/ coll[i].createdAt > coll[j].createdAt
                                    \/ (coll[i].createdAt = coll[j].createdAt
                                          /\ i >= j)
         IN  <<m>> \o NewestFirst(coll, ids \ {m})

\* .limit(limit).skip((page - 1) * limit)
PageOf(ids, page, limit) ==
    SubSeq(ids, (page - 1) * limit + 1,
           IF Len(ids) < page * limit THEN Len(ids) ELSE page * limit)

\* what the list sends for one confession
FormattedConfession(coll, id, userId) ==
    [id |-> id, content |-> coll[id].content, category |-> coll[id].category,
     reactions |-> [t \in ReactionTypes |->
                      ReactionCount(coll[id].reactions, t)],
     commentCount |-> Len(coll[id].comments),
     userReactions |-> [t \in ReactionTypes |->
                          \E i \in 1..Len(coll[id].reactions) :
                              coll[id].reactions[i]
                                = [userId |-> userId, type |-> t]]]

\* router.get('/') up to Confession.find
ConfessionListBegin(w, caller, category, page, limit) ==
    LET userId == authDecoded(generateToken(caller)).userId
        r == [op |-> "listConfessions", pc |-> "findConfessions",
              caller |-> userId, category |-> category, page |-> page,
              limit |-> limit]
    IN  IF userId \notin w.users
        THEN Answer(w, [op |-> "listConfessions", caller |-> userId,
                        category |-> category, page |-> page,
                        limit |-> limit, confessions |-> <<>>,
                        status |-> 404])
        ELSE Await(w, r)

\* const confessions = await Confession.find(query)...; res.json(...)
ConfessionListFind(w, r) ==
    LET ids == PageOf(NewestFirst(w.confessions,
                                  ConfessionQuery(w.confessions,
                                                  College(r.caller),
                                                  r.category)),
                      r.page, r.limit)
    IN  Answer(w, [op |-> "listConfessions", caller |-> r.caller,
                   category |-> r.category, page |-> r.page,
                   limit |-> r.limit,
                   confessions |-> [k \in 1..Len(ids) |->
                       FormattedConfession(w.confessions, ids[k], r.caller)],
                   status |-> 200])

\* content.trim() of the bodies the comment requests carry
TrimComment(content) == IF content = " " THEN "" ELSE content

\* a plausible slip: the college test is left out
HasAccessAlways(confession, userId) == TRUE

\* confession.college === currentUser.college
HasAccess(confession, userId) == confession.college = College(userId)

CommentResponse(r, status) ==
    [op |-> r.op, caller |-> r.caller, id |-> r.id,
     commentId |-> r.commentId, content |-> r.content, status |-> status]

\* router.post('/:id/comments') up to Confession.findById
CommentBegin(w, caller, id, content) ==
    LET userId == authDecoded(generateToken(caller)).userId
        r == [op |-> "addComment", pc |-> "findToComment", caller |-> userId,
              id |-> id, commentId |-> 0, content |-> content]
    IN  IF content = "" \/ TrimComment(content) = ""
        THEN Answer(w, CommentResponse(r, 400))
        ELSE Await(w, r)

\* Confession.findById, User.findById, the college test
CommentFind(w, r) ==
    IF r.id \notin 1..Len(w.confessions)
    THEN Answer(w, CommentResponse(r, 404))
    ELSE IF r.caller \notin w.users
    THEN Answer(w, CommentResponse(r, 404))
    ELSE IF ~HasAccess(w.confessions[r.id], r.caller)
    THEN Answer(w, CommentResponse(r, 403))
    ELSE Await(w, [r EXCEPT !.pc = "pushComment"])

\* Confession.findByIdAndUpdate(confessionId, { $push: { comments } })
CommentPush(w, r) ==
    IF r.id \notin 1..Len(w.confessions)
    THEN Answer(w, CommentResponse(r, 404))
    ELSE Answer([w EXCEPT !.confessions[r.id].comments =
                    Append(@, [userId |-> r.caller,
                               content |-> TrimComment(r.content),
                               replies |-> <<>>])],
                CommentResponse(r, 201))

\* router.post('/:id/comments/:commentId/replies') up to Confession.findById
ReplyBegin(w, caller, id, commentId, content) ==
    LET userId == authDecoded(generateToken(caller)).userId
        r == [op |-> "addReply", pc |-> "findToReply", caller |-> userId,
              id |-> id, commentId |-> commentId, content |-> content]
    IN  IF content = "" \/ TrimComment(content) = ""
        THEN Answer(w, CommentResponse(r, 400))
        ELSE Await(w, r)

\* Confession.findById, comments.id(commentId), User.findById, the college test
ReplyFind(w, r) ==
    IF r.id \notin 1..Len(w.confessions)
    THEN Answer(w, CommentResponse(r, 404))
    ELSE IF r.commentId \notin 1..Len(w.confessions[r.id].comments)
    THEN Answer(w, CommentResponse(r, 404))
    ELSE IF r.caller \notin w.users
    THEN Answer(w, CommentResponse(r, 404))
    ELSE IF ~HasAccess(w.confessions[r.id], r.caller)
    THEN Answer(w, CommentResponse(r, 403))
    ELSE Await(w, [r EXCEPT !.pc = "pushReply"])

\* Confession.findOneAndUpdate({ _id, 'comments._id': commentId },
\*                             { $push: { 'comments.$.replies': newReply } })
ReplyPush(w, r) ==
    IF \/ r.id \notin 1..Len(w.confessions)
       \/ r.commentId \notin 1..Len(w.confessions[r.id].comments)
    THEN Answer(w, CommentResponse(r, 404))
    ELSE Answer([w EXCEPT !.confessions[r.id].comments[r.commentId].replies =
                    Append(@, [userId |-> r.caller,
                               content |-> TrimComment(r.content)])],
                CommentResponse(r, 201))

ConfessionStep(w, r) ==
    CASE r.pc = "saveConfession" -> ConfessionSave(w, r)
      [] r.pc = "findConfessions" -> ConfessionListFind(w, r)
      [] r.pc = "findToComment" -> CommentFind(w, r)
      [] r.pc = "pushComment" -> CommentPush(w, r)
      [] r.pc = "findToReply" -> ReplyFind(w, r)
      [] r.pc = "pushReply" -> ReplyPush(w, r)
      [] r.pc = "findConfession" -> ReactFind(w, r)
      [] r.pc = "saveReactions"  -> ReactSave(w, r)

\* ----------------------------------------------------------------- photos
PhotoLimit == 6

\* router.post('/upload-photo'): the photo cloudinary stored is appended to
\* the caller's photos, the first one as the main photo
PhotoUpload(w, caller) ==
    LET resp == [op |-> "uploadPhoto", caller |-> caller, url |-> 0]
    IN  IF ~auth(w, generateToken(caller))
        THEN Answer(w, resp @@ [status |-> 401])
        ELSE IF Len(w.photos[caller]) >= PhotoLimit
        THEN Answer(w, resp @@ [status |-> 400])
        ELSE Answer([w EXCEPT
                 !.uploads = @ + 1,
                 !.photos[caller] =
                     Append(@, [url |-> w.uploads + 1,
                                publicId |-> w.uploads + 1,
                                isMain |-> Len(w.photos[caller]) = 0,
                                likes |-> <<>>, likeCount |-> 0])],
               [resp EXCEPT !.url = w.uploads + 1] @@ [status |-> 200])

\* a plausible slip: the photo is spliced out and nothing else is touched
RemovePhotoOnly(photos, photoIndex) ==
    SubSeq(photos, 1, photoIndex - 1)
      \o SubSeq(photos, photoIndex + 1, Len(photos))

\* user.photos.splice(photoIndex, 1); when photos are left and none is main,
\* the first becomes main
RemovePhoto(photos, photoIndex) ==
    LET rest == SubSeq(photos, 1, photoIndex - 1)
                  \o SubSeq(photos, photoIndex + 1, Len(photos))
    IN  IF rest # <<>> /\ ~(\E i \in 1..Len(rest) : rest[i].isMain)
        THEN [rest EXCEPT ![1].isMain = TRUE]
        ELSE rest

\* every photo is set to not main, then the selected one to main
SetMain(photos, photoIndex) ==
    [i \in 1..Len(photos) |-> [photos[i] EXCEPT !.isMain = (i = photoIndex)]]

\* router.delete('/photo/:publicId')
PhotoDelete(w, caller, publicId) ==
    LET resp == [op |-> "deletePhoto", caller |-> caller,
                 publicId |-> publicId,
                 before |-> IF caller \in w.users THEN w.photos[caller]
                            ELSE <<>>]
    IN  IF ~auth(w, generateToken(caller))
        THEN Answer(w, resp @@ [status |-> 401])
        ELSE LET photoIndex == FindOne(w.photos[caller],
                                       LAMBDA x : x.publicId = publicId)
             IN  IF photoIndex = 0
                 THEN Answer(w, resp @@ [status |-> 404])
                 ELSE Answer([w EXCEPT !.photos[caller] =
                                          RemovePhoto(@, photoIndex)],
                             resp @@ [status |-> 200])

\* router.put('/photo/:publicId/main')
PhotoSetMain(w, caller, publicId) ==
    LET resp == [op |-> "setMainPhoto", caller |-> caller,
                 publicId |-> publicId,
                 before |-> IF caller \in w.users THEN w.photos[caller]
                            ELSE <<>>]
    IN  IF ~auth(w, generateToken(caller))
        THEN Answer(w, resp @@ [status |-> 401])
        ELSE LET photoIndex == FindOne(w.photos[caller],
                                       LAMBDA x : x.publicId = publicId)
             IN  IF photoIndex = 0
                 THEN Answer(w, resp @@ [status |-> 404])
                 ELSE Answer([w EXCEPT !.photos[caller] =
                                          SetMain(@, photoIndex)],
                             resp @@ [status |-> 200])

\* the response of a photo like; before is the photo the request found
PhotoLikeResponse(r, status) ==
    [op |-> "likePhoto", caller |-> r.caller, url |-> r.url,
     status |-> status, before |-> r.before, likeCount |-> r.likeCount,
     isLiked |-> r.isLiked]

\* the users whose photos hold one with this url
PhotoOwners(w, url) ==
    {u \in w.users : \E i \in 1..Len(w.photos[u]) : w.photos[u][i].url = url}

\* router.post('/like') up to User.findOne: currentUserId = req.user.id, and
\* the payload of the token has no field id
PhotoLikeBegin(w, caller, url) ==
    LET user == authDecoded(generateToken(caller))
        r == [op |-> "likePhoto", pc |-> "findOwner", caller |-> caller,
              currentUserId |-> Field(user, "id"), url |-> url,
              owner |-> 0, index |-> 0, before |-> None, likes |-> <<>>,
              likeCount |-> 0, isLiked |-> FALSE]
    IN  IF url = 0
        THEN Answer(w, PhotoLikeResponse(r, 400))
        ELSE Await(w, r)

\* an ObjectId array stores the undefined it is handed as null
Stored(userId) == IF userId = Undefined THEN "null" ELSE userId

\* the toggle on the photo in memory: null entries are filtered out, the
\* caller's id is looked up, then removed and the count decremented or pushed
\* and the count incremented
ToggleLike(photo, currentUserId) ==
    LET likes == SelectSeq(photo.likes, LAMBDA x : x # "null")
        wasLiked == \E i \in 1..Len(likes) : likes[i] = currentUserId
    IN  IF wasLiked
        THEN [photo EXCEPT
                !.likes = SelectSeq(likes, LAMBDA x : x # currentUserId),
                !.likeCount = IF @ - 1 > 0 THEN @ - 1 ELSE 0]
        ELSE [photo EXCEPT
                !.likes = Append(likes, Stored(currentUserId)),
                !.likeCount = @ + 1]

\* const photoOwner = await User.findOne({ 'photos.url': photoUrl }); the
\* toggle; actuallyLiked = photo.likes.includes(currentUserId)
PhotoLikeFind(w, r) ==
    IF PhotoOwners(w, r.url) = {}
    THEN Answer(w, PhotoLikeResponse(r, 404))
    ELSE LET owner == CHOOSE u \in PhotoOwners(w, r.url) : TRUE
             index == FindOne(w.photos[owner], LAMBDA x : x.url = r.url)
             photo == ToggleLike(w.photos[owner][index], r.currentUserId)
         IN  Await(w, [r EXCEPT
                !.pc = "saveOwner", !.owner = owner, !.index = index,
                !.before = w.photos[owner][index],
                !.likes = photo.likes, !.likeCount = photo.likeCount,
                !.isLiked = \E i \in 1..Len(photo.likes) :
                               photo.likes[i] = Stored(r.currentUserId)])

\* await photoOwner.save(); res.json({ likeCount, isLiked })
PhotoLikeSave(w, r) ==
    Answer([w EXCEPT !.photos[r.owner][r.index].likes = r.likes,
                     !.photos[r.owner][r.index].likeCount = r.likeCount],
           PhotoLikeResponse(r, 200))

PhotoStep(w, r) ==
    CASE r.pc = "findOwner" -> PhotoLikeFind(w, r)
      [] r.pc = "saveOwner" -> PhotoLikeSave(w, r)

\* ------------------------------------------------------------------- chat
\* content.trim() of the bodies the requests carry
Trim(content) == IF content = " " THEN "" ELSE content

\* a plausible slip: the match is looked up by id alone
FindMatchById(coll, matchId, userId) ==
    IF matchId \in 1..Len(coll) THEN matchId ELSE 0

\* Match.findOne({ _id: matchId, $or: [{ user1: userId }, { user2: userId }] })
FindMatchOf(coll, matchId, userId) ==
    IF /\ matchId \in 1..Len(coll)
       /\ (coll[matchId].user1 = userId \/ coll[matchId].user2 = userId)
    THEN matchId ELSE 0

SendResponse(r, status) ==
    [op |-> "sendMessage", caller |-> r.caller, matchId |-> r.matchId,
     content |-> r.content, status |-> status]

\* router.post('/matches/:matchId/messages') up to Match.findOne
SendBegin(w, caller, matchId, content) ==
    LET r == [op |-> "sendMessage", pc |-> "findMatch", caller |-> caller,
              matchId |-> matchId, content |-> content, createdAt |-> 0]
    IN  IF ~auth(w, generateToken(caller))
        THEN Answer(w, SendResponse(r, 401))
        ELSE IF content = "" \/ Trim(content) = ""
        THEN Answer(w, SendResponse(r, 400))
        ELSE Await(w, r)

\* const match = await Match.findOne(...)
SendFindMatch(w, r) ==
    IF FindMatchOf(w.matches, r.matchId, r.caller) = 0
    THEN Answer(w, SendResponse(r, 404))
    ELSE Await(w, [r EXCEPT !.pc = "saveMessage"])

\* await message.save(); await message.populate('sender', ...)
SendSaveMessage(w, r) ==
    Await([w EXCEPT
             !.msgSeq = @ + 1,
             !.messages = Append(@, [id |-> w.msgSeq + 1, match |-> r.matchId,
                                     sender |-> r.caller,
                                     content |-> Trim(r.content),
                                     readBy |-> {r.caller},
                                     createdAt |-> Now])],
          [r EXCEPT !.pc = "updateMatch", !.createdAt = Now])

\* await Match.findByIdAndUpdate(matchId, { lastMessage, lastActivity })
SendUpdateMatch(w, r) ==
    Answer([w EXCEPT
              !.matches[r.matchId].lastMessage =
                  [content |-> Trim(r.content), sender |-> r.caller,
                   timestamp |-> r.createdAt],
              !.matches[r.matchId].lastActivity = Now],
           SendResponse(r, 200))

\* the response of a list request; returned holds the ids of the messages sent
ListResponse(r, status) ==
    [op |-> "listMessages", caller |-> r.caller, matchId |-> r.matchId,
     limit |-> r.limit, page |-> r.page, status |-> status,
     returned |-> r.returned]

\* router.get('/matches/:matchId/messages') up to Match.findOne
ListBegin(w, caller, matchId, page, limit) ==
    LET r == [op |-> "listMessages", pc |-> "findMatchToList",
              caller |-> caller, matchId |-> matchId, page |-> page,
              limit |-> limit, returned |-> <<>>]
    IN  IF ~auth(w, generateToken(caller))
        THEN Answer(w, ListResponse(r, 401))
        ELSE Await(w, r)

\* const match = await Match.findOne(...)
ListFindMatch(w, r) ==
    IF FindMatchOf(w.matches, r.matchId, r.caller) = 0
    THEN Answer(w, ListResponse(r, 404))
    ELSE Await(w, [r EXCEPT !.pc = "findMessages"])

\* .sort({ createdAt: 1 }): the oldest first, ties in insertion order
RECURSIVE SortByCreatedAt(_)
SortByCreatedAt(msgs) ==
    IF msgs = <<>> THEN <<>>
    ELSE LET m == CHOOSE i \in 1..Len(msgs) :
                    /\ \A j \in 1..Len(msgs) :
                          msgs[i].createdAt <= msgs[j].createdAt
                    /\ \A j \in 1..(i - 1) :
                          msgs[j].createdAt # msgs[i].createdAt
         IN  <<msgs[m]>> \o SortByCreatedAt(SubSeq(msgs, 1, m - 1)
                                             \o SubSeq(msgs, m + 1, Len(msgs)))

\* Message.find({ match }).sort({ createdAt: 1 }).limit(limit * page)
FindMessages(coll, matchId, page, limit) ==
    LET found == SortByCreatedAt(SelectSeq(coll, LAMBDA d : d.match = matchId))
    IN  SubSeq(found, 1, IF Len(found) < limit * page
                         THEN Len(found) ELSE limit * page)

\* const messages = await Message.find(...); formattedMessages
ListFindMessages(w, r) ==
    LET messages == FindMessages(w.messages, r.matchId, r.page, r.limit)
    IN  Await(w, [r EXCEPT !.pc = "markRead",
                           !.returned = [i \in 1..Len(messages) |->
                                           messages[i].id]])

\* a plausible slip: the reader replaces the read set
MarkAsReadReplacing(coll, matchId, userId) ==
    UpdateMany(coll,
               LAMBDA d : /\ d.match = matchId /\ d.sender # userId
                          /\ userId \notin d.readBy,
               LAMBDA d : [d EXCEPT !.readBy = {userId}])

\* Message.updateMany({ match, sender: { $ne: userId }, readBy: { $ne: userId } },
\*                    { $addToSet: { readBy: userId } })
MarkAsRead(coll, matchId, userId) ==
    UpdateMany(coll,
               LAMBDA d : /\ d.match = matchId /\ d.sender # userId
                          /\ userId \notin d.readBy,
               LAMBDA d : [d EXCEPT !.readBy = @ \cup {userId}])

\* await Message.updateMany(...); res.json(...)
ListMarkRead(w, r) ==
    Answer([w EXCEPT !.messages = MarkAsRead(@, r.matchId, r.caller)],
           ListResponse(r, 200))

\* the response of a mark-read or delete-message request
MessageResponse(r, status) ==
    [op |-> r.op, caller |-> r.caller, messageId |-> r.messageId,
     status |-> status]

\* router.put('/messages/:messageId/read') up to Message.findByIdAndUpdate
MarkMessageReadBegin(w, caller, messageId) ==
    LET r == [op |-> "markMessageRead", pc |-> "addToReadBy",
              caller |-> caller, messageId |-> messageId]
    IN  IF ~auth(w, generateToken(caller))
        THEN Answer(w, MessageResponse(r, 401))
        ELSE Await(w, r)

\* Message.findByIdAndUpdate(messageId, { $addToSet: { readBy: userId } })
AddToReadBy(coll, messageId, userId) ==
    UpdateMany(coll,
               LAMBDA d : d.id = messageId,
               LAMBDA d : [d EXCEPT !.readBy = @ \cup {userId}])

\* const message = await Message.findByIdAndUpdate(...); if (!message) 404
MarkMessageReadUpdate(w, r) ==
    IF Matching(w.messages, LAMBDA d : d.id = r.messageId) = {}
    THEN Answer(w, MessageResponse(r, 404))
    ELSE Answer([w EXCEPT !.messages = AddToReadBy(@, r.messageId, r.caller)],
                MessageResponse(r, 200))

\* router.delete('/messages/:messageId') up to Message.findOne
DeleteMessageBegin(w, caller, messageId) ==
    LET r == [op |-> "deleteMessage", pc |-> "findOwnMessage",
              caller |-> caller, messageId |-> messageId]
    IN  IF ~auth(w, generateToken(caller))
        THEN Answer(w, MessageResponse(r, 401))
        ELSE Await(w, r)

\* a plausible slip: the message is looked up by its id alone
FindAnyMessage(coll, messageId, userId) ==
    Matching(coll, LAMBDA d : d.id = messageId)

\* Message.findOne({ _id: messageId, sender: userId })
FindOwnMessage(coll, messageId, userId) ==
    Matching(coll, LAMBDA d : d.id = messageId /\ d.sender = userId)

\* const message = await Message.findOne(...); if (!message) 404
DeleteMessageFind(w, r) ==
    IF FindOwnMessage(w.messages, r.messageId, r.caller) = {}
    THEN Answer(w, MessageResponse(r, 404))
    ELSE Await(w, [r EXCEPT !.pc = "deleteMessage"])

\* await Message.findByIdAndDelete(messageId); res.json(...)
DeleteMessageRemove(w, r) ==
    Answer([w EXCEPT !.messages = SelectSeq(@, LAMBDA d : d.id # r.messageId)],
           MessageResponse(r, 200))

ChatStep(w, r) ==
    CASE r.pc = "findMatch"       -> SendFindMatch(w, r)
      [] r.pc = "addToReadBy"     -> MarkMessageReadUpdate(w, r)
      [] r.pc = "findOwnMessage"  -> DeleteMessageFind(w, r)
      [] r.pc = "deleteMessage"   -> DeleteMessageRemove(w, r)
      [] r.pc = "saveMessage"     -> SendSaveMessage(w, r)
      [] r.pc = "updateMatch"     -> SendUpdateMatch(w, r)
      [] r.pc = "findMatchToList" -> ListFindMatch(w, r)
      [] r.pc = "findMessages"    -> ListFindMessages(w, r)
      [] r.pc = "markRead"        -> ListMarkRead(w, r)

\* ------------------------------------------------------------------- auth
VerificationHours == 24
ResetHours        == 1

\* the pre-save hook stores the bcrypt hash of a modified password
Hash(password) == <<"bcrypt", password>>

\* what register stores for the user u: the verification token mailed to u
\* is the u-th token drawn
RegisteredAccount(u) ==
    [isVerified |-> FALSE, verificationToken |-> u,
     verificationTokenExpires |-> VerificationHours,
     resetPasswordToken |-> 0, resetPasswordExpires |-> 0,
     password |-> Hash("initial")]

\* User.findOne({ verificationToken, verificationTokenExpires: { $gt: now } })
FindByVerificationToken(w, token) ==
    {u \in w.users : /\ w.accounts[u].verificationToken = token
                     /\ w.accounts[u].verificationTokenExpires > w.clock}

\* User.findOne({ resetPasswordToken, resetPasswordExpires: { $gt: now } })
FindByResetToken(w, token) ==
    {u \in w.users : /\ w.accounts[u].resetPasswordToken = token
                     /\ w.accounts[u].resetPasswordExpires > w.clock}

\* a plausible slip: the token is left on the verified account
VerifiedKeepingToken(account) ==
    [account EXCEPT !.isVerified = TRUE]

\* isVerified = true; verificationToken and its expiry are unset
Verified(account) ==
    [account EXCEPT !.isVerified = TRUE, !.verificationToken = 0,
                    !.verificationTokenExpires = 0]

\* password = the new one; resetPasswordToken and its expiry are unset
PasswordReset(account, password) ==
    [account EXCEPT !.password = Hash(password), !.resetPasswordToken = 0,
                    !.resetPasswordExpires = 0]

TokenResponse(r, status) ==
    [op |-> r.op, token |-> r.token, status |-> status]

\* router.get('/verify-email/:token') up to User.findOne
VerifyEmailBegin(w, token) ==
    Await(w, [op |-> "verifyEmail", pc |-> "findByToken", token |-> token,
              user |-> 0])

VerifyEmailFind(w, r) ==
    IF FindByVerificationToken(w, r.token) = {}
    THEN Answer(w, TokenResponse(r, 400))
    ELSE Await(w, [r EXCEPT
            !.pc = "saveVerified",
            !.user = CHOOSE u \in FindByVerificationToken(w, r.token) : TRUE])

\* await user.save(); accepted keeps the tokens that have been accepted so far
VerifyEmailSave(w, r) ==
    Answer([w EXCEPT !.accounts[r.user] = Verified(@),
                     !.accepted = @ \cup {r.token}],
           TokenResponse(r, 200))

\* password.length of the bodies the requests carry
PasswordLength(password) ==
    CASE password = "secret1" -> 7
      [] password = "short"   -> 5
      [] OTHER                -> 0

\* router.post('/reset-password/:token') up to User.findOne
ResetPasswordBegin(w, token, password) ==
    LET r == [op |-> "resetPassword", pc |-> "findByResetToken",
              token |-> token, password |-> password, user |-> 0]
    IN  IF password = "" \/ PasswordLength(password) < 6
        THEN Answer(w, TokenResponse(r, 400))
        ELSE Await(w, r)

ResetPasswordFind(w, r) ==
    IF FindByResetToken(w, r.token) = {}
    THEN Answer(w, TokenResponse(r, 400))
    ELSE Await(w, [r EXCEPT
            !.pc = "savePassword",
            !.user = CHOOSE u \in FindByResetToken(w, r.token) : TRUE])

ResetPasswordSave(w, r) ==
    Answer([w EXCEPT !.accounts[r.user] = PasswordReset(@, r.password),
                     !.accepted = @ \cup {r.token}],
           TokenResponse(r, 200))

\* a plausible slip: a verified account is sent a new token too
ResendVerificationToVerified(w, email) ==
    LET resp == [op |-> "resendVerification", email |-> email, token |-> 0]
    IN  IF email \notin w.users
        THEN Answer(w, resp @@ [status |-> 404])
        ELSE Answer([w EXCEPT
                 !.tokenSeq = @ + 1,
                 !.accounts[email].verificationToken = w.tokenSeq + 1,
                 !.accounts[email].verificationTokenExpires =
                     w.clock + VerificationHours],
               resp @@ [status |-> 200])

\* router.post('/resend-verification'): a new token replaces the stored one
ResendVerification(w, email) ==
    LET resp == [op |-> "resendVerification", email |-> email, token |-> 0]
    IN  IF email \notin w.users
        THEN Answer(w, resp @@ [status |-> 404])
        ELSE IF w.accounts[email].isVerified
        THEN Answer(w, resp @@ [status |-> 400])
        ELSE Answer([w EXCEPT
                 !.tokenSeq = @ + 1,
                 !.accounts[email].verificationToken = w.tokenSeq + 1,
                 !.accounts[email].verificationTokenExpires =
                     w.clock + VerificationHours],
               resp @@ [status |-> 200])

\* the body both answers of forgot-password are written with
ResetInstructions ==
    [success |-> TRUE,
     message |-> "If an account exists with this email, you will receive password reset instructions."]

\* a plausible slip: an unknown e-mail address is reported
ForgotPasswordRevealing(w, email) ==
    LET resp == [op |-> "forgotPassword", email |-> email, token |-> 0]
    IN  IF email \notin w.users
        THEN Answer(w, resp @@ [status |-> 404,
                                body |-> [success |-> FALSE,
                                          message |-> "User not found"]])
        ELSE Answer([w EXCEPT
                 !.tokenSeq = @ + 1,
                 !.accounts[email].resetPasswordToken = w.tokenSeq + 1,
                 !.accounts[email].resetPasswordExpires =
                     w.clock + ResetHours],
               resp @@ [status |-> 200, body |-> ResetInstructions])

\* router.post('/forgot-password'): a reset token is stored and mailed;
\* sendPasswordResetEmail catches what sendMail throws, and its result is not
\* looked at
ForgotPassword(w, email) ==
    LET resp == [op |-> "forgotPassword", email |-> email, token |-> 0]
    IN  IF email \notin w.users
        THEN Answer(w, resp @@ [status |-> 200, body |-> ResetInstructions])
        ELSE Answer([w EXCEPT
                 !.tokenSeq = @ + 1,
                 !.accounts[email].resetPasswordToken = w.tokenSeq + 1,
                 !.accounts[email].resetPasswordExpires =
                     w.clock + ResetHours],
               resp @@ [status |-> 200, body |-> ResetInstructions])

AuthStep(w, r) ==
    CASE r.pc = "findByToken"      -> VerifyEmailFind(w, r)
      [] r.pc = "saveVerified"     -> VerifyEmailSave(w, r)
      [] r.pc = "findByResetToken" -> ResetPasswordFind(w, r)
      [] r.pc = "savePassword"     -> ResetPasswordSave(w, r)

\* ------------------------------------------------------------ dispatching
\* the stretch a suspended request resumes with
HandlerStep(w, r) ==
    CASE r.op = "swipe"            -> SwipeStep(w, r)
      [] r.op = "createConfession" -> ConfessionStep(w, r)
      [] r.op = "listConfessions"  -> ConfessionStep(w, r)
      [] r.op = "addComment"       -> ConfessionStep(w, r)
      [] r.op = "addReply"         -> ConfessionStep(w, r)
      [] r.op = "react"            -> ConfessionStep(w, r)
      [] r.op = "likePhoto"        -> PhotoStep(w, r)
      [] r.op = "listMessages"     -> ChatStep(w, r)
      [] r.op = "sendMessage"      -> ChatStep(w, r)
      [] r.op = "markMessageRead"  -> ChatStep(w, r)
      [] r.op = "deleteMessage"    -> ChatStep(w, r)
      [] r.op = "verifyEmail"      -> AuthStep(w, r)
      [] r.op = "resetPassword"    -> AuthStep(w, r)

\* a request served with no other request in flight: every stretch in turn
RECURSIVE Run(_)
Run(s) ==
    IF s.rq.pc = "idle" THEN s
    ELSE CHOOSE t \in {Run(x) : x \in {HandlerStep(s.db, s.rq)}} : TRUE

NoneInFlight == \A p \in Procs : rq[p].pc = "idle"

\* express serves a request from dispatch to answer
Serve(first, bound) ==
    /\ NoneInFlight
    /\ nreq < bound
    /\ LET s == Run(first) IN
         /\ db' = s.db
         /\ last' = s.out
    /\ nreq' = nreq + 1
    /\ UNCHANGED rq

\* express dispatches a request while others are suspended
Dispatch(p, first, bound) ==
    /\ rq[p].pc = "idle"
    /\ nreq < bound
    /\ db' = first.db
    /\ rq' = [rq EXCEPT ![p] = first.rq]
    /\ last' = IF first.out = None THEN last ELSE first.out
    /\ nreq' = nreq + 1

\* the event loop resumes a suspended request
Resume(p) ==
    /\ rq[p].pc # "idle"
    /\ LET s == HandlerStep(db, rq[p]) IN
         /\ db' = s.db
         /\ rq' = [rq EXCEPT ![p] = s.rq]
         /\ last' = IF s.out = None THEN last ELSE s.out
    /\ UNCHANGED nreq

\* ------------------------------------------------------------ behaviours
Init ==
    /\ db = [users |-> UserIds, swipes |-> <<>>, matches |-> <<>>,
             notifs |-> <<>>, confessions |-> <<>>,
             photos |-> [u \in UserIds |-> <<>>], uploads |-> 0,
             messages |-> <<>>, msgSeq |-> 0,
             accounts |-> [u \in UserIds |-> RegisteredAccount(u)],
             tokenSeq |-> NumUsers, clock |-> 0, accepted |-> {}]
    /\ rq = [p \in Procs |-> Idle]
    /\ last = None
    /\ nreq = 0

SwipeInputs == SwipeActions \cup {"boost"}

\* swipe requests of any body, served one at a time
Swipe ==
    \E c \in UserIds, t \in UserIds \cup {NoUser}, a \in SwipeInputs :
        Serve(SwipeBegin(db, c, t, a), MaxReq)

Next == Swipe

Spec == Init /\ [][Next]_vars

\* likes between users, served together
SwipeDispatch ==
    \E p \in Procs, c \in UserIds : \E t \in UserIds \ {c} :
        Dispatch(p, SwipeBegin(db, c, t, "like"), MaxConc)

SwipeResume == \E p \in Procs : Resume(p)

SwipeConcNext == SwipeDispatch \/ SwipeResume

SwipeConcSpec == Init /\ [][SwipeConcNext]_vars

\* swipes that pass validation and notification requests, one at a time
NotifSwipe ==
    \E c \in UserIds : \E t \in UserIds \ {c}, a \in {"like", "pass"} :
        Serve(SwipeBegin(db, c, t, a), MaxNotifReq)

MarkAllReadRequest ==
    \E c \in UserIds : Serve(NotificationsMarkAllRead(db, c), MaxNotifReq)

MarkReadRequest ==
    \E c \in UserIds, id \in 1..Len(db.notifs) :
        Serve(NotificationsMarkRead(db, c, id), MaxNotifReq)

NotifNext == NotifSwipe \/ MarkAllReadRequest \/ MarkReadRequest

NotifSpec == Init /\ [][NotifNext]_vars

\* confession requests, one at a time; the token of NoUser is signed for a
\* user id that has no record
ReactInputs == {"heart", "laugh", "wow"}

CreateConfession ==
    \E c \in UserIds \cup {NoUser}, content \in {"test", "hi"} :
        Serve(ConfessionCreateBegin(db, c, content, "general"), MaxConfReq)

React ==
    \E c \in UserIds \cup {NoUser}, id \in 1..(Len(db.confessions) + 1), t \in ReactInputs :
        Serve(ReactBegin(db, c, id, t), MaxConfReq)

ConfessionNext == CreateConfession \/ React

ConfessionSpec == Init /\ [][ConfessionNext]_vars

\* confession requests served together
CreateConfessionDispatch ==
    \E p \in Procs, c \in UserIds :
        Dispatch(p, ConfessionCreateBegin(db, c, "test", "general"),
                 MaxConcReact)

ReactDispatch ==
    \E p \in Procs, c \in UserIds, id \in 1..Len(db.confessions),
       t \in {"heart", "laugh"} :
        Dispatch(p, ReactBegin(db, c, id, t), MaxConcReact)

ConfessionResume == \E p \in Procs : Resume(p)

ReactConcNext == CreateConfessionDispatch \/ ReactDispatch \/ ConfessionResume

ReactConcSpec == Init /\ [][ReactConcNext]_vars

\* photo requests, one at a time
UploadPhoto == \E c \in UserIds : Serve(PhotoUpload(db, c), MaxPhotoReq)

LikePhoto ==
    \E c \in UserIds, url \in 0..(db.uploads + 1) :
        Serve(PhotoLikeBegin(db, c, url), MaxPhotoReq)

DeletePhoto ==
    \E c \in UserIds, id \in 1..(db.uploads + 1) :
        Serve(PhotoDelete(db, c, id), MaxPhotoReq)

SetMainPhoto ==
    \E c \in UserIds, id \in 1..(db.uploads + 1) :
        Serve(PhotoSetMain(db, c, id), MaxPhotoReq)

PhotoNext == UploadPhoto \/ LikePhoto \/ DeletePhoto \/ SetMainPhoto

PhotoSpec == Init /\ [][PhotoNext]_vars

\* likes between users and chat requests, one at a time
ChatSwipe ==
    \E c \in UserIds : \E t \in UserIds \ {c} :
        Serve(SwipeBegin(db, c, t, "like"), MaxChatReq)

SendMessage ==
    \E c \in UserIds, m \in 1..(Len(db.matches) + 1), content \in {"hey", " ", ""} :
        Serve(SendBegin(db, c, m, content), MaxChatReq)

GetMatchRequest ==
    \E c \in UserIds, m \in 1..(Len(db.matches) + 1) :
        Serve(GetMatch(db, c, m), MaxChatReq)

ChatNext == ChatSwipe \/ SendMessage \/ GetMatchRequest

ChatSpec == Init /\ [][ChatNext]_vars

\* --------------------------------------------------------------- claims
\* likes between users, then messages sent and listed, one at a time
MsgSwipe ==
    /\ Len(db.swipes) < MaxMsgSwipes
    /\ \E c \in UserIds : \E t \in UserIds \ {c} :
         Serve(SwipeBegin(db, c, t, "like"), MaxMsgReq)

MsgSend ==
    \E c \in UserIds, m \in 1..Len(db.matches) :
        Serve(SendBegin(db, c, m, "hey"), MaxMsgReq)

MsgList ==
    \E c \in UserIds, m \in 1..Len(db.matches), limit \in {1, 50} :
        Serve(ListBegin(db, c, m, 1, limit), MaxMsgReq)

MsgNext == MsgSwipe \/ MsgSend \/ MsgList

MsgSpec == Init /\ [][MsgNext]_vars

\* account requests, one at a time; tokens are the ones drawn so far and one
\* that none was
VerifyEmailRequest ==
    \E token \in 1..(db.tokenSeq + 1) :
        Serve(VerifyEmailBegin(db, token), MaxAuthReq)

ResetPasswordRequest ==
    \E token \in 1..(db.tokenSeq + 1), password \in {"secret1", "short"} :
        Serve(ResetPasswordBegin(db, token, password), MaxAuthReq)

ResendVerificationRequest ==
    \E email \in UserIds \cup {NoUser} :
        Serve(ResendVerification(db, email), MaxAuthReq)

ForgotPasswordRequest ==
    \E email \in UserIds \cup {NoUser} :
        Serve(ForgotPassword(db, email), MaxAuthReq)

\* an hour passes between two requests
PassTime ==
    /\ NoneInFlight
    /\ db.clock < MaxClock
    /\ db' = [db EXCEPT !.clock = @ + 1]
    /\ UNCHANGED <<rq, last, nreq>>

AuthNext ==
    \/ VerifyEmailRequest \/ ResetPasswordRequest
    \/ ResendVerificationRequest \/ ForgotPasswordRequest \/ PassTime

AuthSpec == Init /\ [][AuthNext]_vars

\* the verification requests alone, one at a time
VerifyNext == VerifyEmailRequest \/ ResendVerificationRequest \/ PassTime

VerifySpec == Init /\ [][VerifyNext]_vars

\* confessions posted and listed, one at a time
FeedCreate ==
    \E c \in UserIds, category \in {"general", "funny"} :
        Serve(ConfessionCreateBegin(db, c, "test", category), MaxFeedReq)

FeedList ==
    \E c \in UserIds, category \in {"all", "funny"}, page \in {1, 2},
       limit \in {1, 20} :
        Serve(ConfessionListBegin(db, c, category, page, limit), MaxFeedReq)

FeedNext == FeedCreate \/ FeedList

FeedSpec == Init /\ [][FeedNext]_vars

\* confessions posted and commented, one at a time
CommentCreate ==
    \E c \in UserIds :
        Serve(ConfessionCreateBegin(db, c, "test", "general"), MaxCommentReq)

AddComment ==
    \E c \in UserIds \cup {NoUser}, id \in 1..(Len(db.confessions) + 1),
       content \in {"nice", " "} :
        Serve(CommentBegin(db, c, id, content), MaxCommentReq)

AddReply ==
    \E c \in UserIds, id \in 1..Len(db.confessions) :
        \E k \in 1..(Len(db.confessions[id].comments) + 1) :
            Serve(ReplyBegin(db, c, id, k, "nice"), MaxCommentReq)

CommentNext == CommentCreate \/ AddComment \/ AddReply

CommentSpec == Init /\ [][CommentNext]_vars

\* swipes that pass validation and notification reads, one at a time
InboxSwipe ==
    \E c \in UserIds : \E t \in UserIds \ {c}, a \in {"like", "pass"} :
        Serve(SwipeBegin(db, c, t, a), MaxInboxReq)

ListNotifications ==
    \E c \in UserIds, page \in {1, 2}, type \in {"", "match", "like"},
       unreadOnly \in BOOLEAN :
        Serve(NotificationsList(db, c, page, type, unreadOnly), MaxInboxReq)

UnreadCount ==
    \E c \in UserIds : Serve(NotificationsUnreadCount(db, c), MaxInboxReq)

InboxMarkRead ==
    \E c \in UserIds, id \in 1..Len(db.notifs) :
        Serve(NotificationsMarkRead(db, c, id), MaxInboxReq)

InboxNext == InboxSwipe \/ ListNotifications \/ UnreadCount \/ InboxMarkRead

InboxSpec == Init /\ [][InboxNext]_vars

\* likes between users, served together, any store operation of which can fail
FaultDispatch ==
    \E p \in Procs, c \in UserIds : \E t \in UserIds \ {c} :
        Dispatch(p, SwipeBegin(db, c, t, "like"), MaxFaultReq)

FaultResume == \E p \in Procs : Resume(p)

FaultReject ==
    \E p \in Procs :
        /\ rq[p].op = "swipe"
        /\ rq[p].pc # "idle"
        /\ LET s == SwipeRejected(db, rq[p])
           IN  /\ db' = s.db
               /\ rq' = [rq EXCEPT ![p] = s.rq]
               /\ last' = s.out
        /\ UNCHANGED nreq

FaultNext == FaultDispatch \/ FaultResume \/ FaultReject

FaultSpec == Init /\ [][FaultNext]_vars

\* likes served one at a time, then messages sent together
ChatConcSwipe ==
    /\ Len(db.swipes) < MaxMsgSwipes
    /\ \E c \in UserIds : \E t \in UserIds \ {c} :
         Serve(SwipeBegin(db, c, t, "like"), MaxChatConc)

SendDispatch ==
    \E p \in Procs, c \in UserIds, m \in 1..Len(db.matches) :
        Dispatch(p, SendBegin(db, c, m, "hey"), MaxChatConc)

SendResume == \E p \in Procs : Resume(p)

ChatConcNext == ChatConcSwipe \/ SendDispatch \/ SendResume

ChatConcSpec == Init /\ [][ChatConcNext]_vars

ActiveMatches(w, a, b) ==
    Matching(w.matches, LAMBDA d : /\ {d.user1, d.user2} = {a, b}
                                   /\ d.status = "active")

MatchNotificationsTo(w, recipient, sender) ==
    Matching(w.notifs, LAMBDA d : d.type = "match" /\ d.recipient = recipient
                                  /\ d.sender = sender)

SwipeRecords(w, a, b) ==
    Matching(w.swipes, LAMBDA d : d.swiper = a /\ d.swiped = b)

\* the request just answered is a successful swipe with one of these actions
Swiped(resp, actions) ==
    resp.op = "swipe" /\ resp.status = 200 /\ resp.action \in actions

\* C1: once B has liked A and a later like or superlike of B by A has been
\* answered, there is exactly one active match for {A, B}, one match
\* notification for A about B and one for B about A.
C1_MutualLikeMatchesOnce ==
    (Swiped(last, Likes)
        /\ FindReciprocal(db.swipes, last.caller, last.target) # 0)
    => /\ Cardinality(ActiveMatches(db, last.caller, last.target)) = 1
       /\ Cardinality(MatchNotificationsTo(db, last.caller, last.target)) = 1
       /\ Cardinality(MatchNotificationsTo(db, last.target, last.caller)) = 1

\* the second like of a mutual pair has just been answered with the new match
C1_Witness ==
    /\ Swiped(last, Likes) /\ last.isMatch
    /\ FindReciprocal(db.swipes, last.caller, last.target) # 0
    /\ db.matches[last.matchId].user1 = last.caller
    /\ Len(db.notifs) = 2

\* C2 (as stated): whatever the interleaving of the swipe requests in flight,
\* no unordered pair of users has more than one active match.
C2_AtMostOneActiveMatch ==
    \A a \in UserIds, b \in UserIds :
        Cardinality(ActiveMatches(db, a, b)) <= 1

\* C3 (as stated): a like or superlike that finds no reciprocal like adds
\* exactly one like notification, from the swiper to the target, and no match.
C3_LikeNotifiesTarget ==
    [][(Swiped(last', Likes)
          /\ FindReciprocal(db.swipes, last'.caller, last'.target) = 0)
       => /\ db'.notifs = Append(db.notifs,
                                 LikeNotification(last'.caller, last'.target))
          /\ db'.matches = db.matches]_vars

\* C4 (as stated): a pass changes neither the matches nor the notifications.
C4_PassOnlyWritesSwipe ==
    [][Swiped(last', {"pass"})
       => /\ db'.matches = db.matches
          /\ db'.notifs = db.notifs
          /\ db'.users = db.users]_vars

\* C5: no ordered pair ever has two swipe records, and after a swipe of B by
\* A has been answered the one record of (A, B) carries that request's action.
C5_OneSwipeRecordLastWins ==
    /\ \A a \in UserIds, b \in UserIds : Cardinality(SwipeRecords(db, a, b)) <= 1
    /\ Swiped(last, SwipeActions)
       => \E i \in 1..Len(db.swipes) :
            /\ SwipeRecords(db, last.caller, last.target) = {i}
            /\ db.swipes[i].action = last.action

\* two swipes were served and one record exists: the like just answered
\* overwrote the pass whose notification is stored
C5_Witness ==
    /\ Swiped(last, {"like"})
    /\ nreq = 2
    /\ Len(db.swipes) = 1
    /\ db.notifs # <<>>

\* C9: mark-all-read by U marks every unread notification of U as read and
\* leaves the notifications of every other recipient as they were.
C9_MarkAllReadOwnOnly ==
    [][(last'.op = "markAllRead" /\ last'.status = 200)
       => /\ Len(db'.notifs) = Len(db.notifs)
          /\ \A i \in 1..Len(db.notifs) :
               /\ db.notifs[i].recipient = last'.caller => db'.notifs[i].isRead
               /\ db.notifs[i].recipient # last'.caller
                    => db'.notifs[i] = db.notifs[i]]_vars

\* mark-all-read has just marked a notification of its caller while another
\* recipient's notification stays unread
C9_Witness ==
    /\ last.op = "markAllRead" /\ last.status = 200
    /\ \E i, j \in 1..Len(db.notifs) :
         /\ db.notifs[i].recipient = last.caller
         /\ db.notifs[i].isRead /\ db.notifs[i].readAt = nreq
         /\ db.notifs[j].recipient # last.caller
         /\ ~db.notifs[j].isRead

ReactionsOf(reactions, userId) ==
    Matching(reactions, LAMBDA x : x.userId = userId)

\* two react requests of one user on one confession, answered one after the
\* other, the user holding no reaction before the first
ReactedTwice ==
    /\ last.op = "react" /\ last.status = 200
    /\ last'.op = "react" /\ last'.status = 200
    /\ last'.caller = last.caller /\ last'.id = last.id
    /\ ReactionsOf(last.before, last.caller) = {}

\* C6: react(X) then react(X) by a user without a reaction leaves the user
\* without one, react(X) then react(Y) leaves exactly the reaction Y; either
\* way the count of X is what it was before the first request.
C6_ReactTwice ==
    [][ReactedTwice
       => LET post == db'.confessions[last.id].reactions IN
          /\ ReactionCount(post, last.type)
               = ReactionCount(last.before, last.type)
          /\ IF last'.type = last.type
             THEN ReactionsOf(post, last.caller) = {}
             ELSE \E i \in 1..Len(post) :
                    /\ ReactionsOf(post, last.caller) = {i}
                    /\ post[i].type = last'.type]_vars

\* the request just answered replaced the caller's reaction by another type
C6_Witness ==
    /\ last.op = "react" /\ last.status = 200 /\ last.userReacted
    /\ \E i \in 1..Len(last.before) :
         /\ ReactionsOf(last.before, last.caller) = {i}
         /\ last.before[i].type # last.type
    /\ \E i \in 1..Len(db.confessions[last.id].reactions) :
         db.confessions[last.id].reactions[i]
           = [userId |-> last.caller, type |-> last.type]

PhotoAt(w, url) ==
    LET owner == CHOOSE u \in PhotoOwners(w, url) : TRUE
    IN  w.photos[owner][FindOne(w.photos[owner], LAMBDA x : x.url = url)]

Likers(photo) == {photo.likes[i] : i \in 1..Len(photo.likes)}

\* C8 (as stated): two consecutive likes of a photo by a user who had not
\* liked it leave its likers and likeCount as before the first; the first
\* answers isLiked = true and the second isLiked = false.
C8_LikeTwiceRestores ==
    [][(/\ last.op = "likePhoto" /\ last.status = 200
        /\ last'.op = "likePhoto" /\ last'.status = 200
        /\ last'.caller = last.caller /\ last'.url = last.url
        /\ last.caller \notin Likers(last.before))
       => /\ Likers(PhotoAt(db', last.url)) = Likers(last.before)
          /\ PhotoAt(db', last.url).likeCount = last.before.likeCount
          /\ last.isLiked
          /\ ~last'.isLiked]_vars

\* a send request of a registered user who is neither user1 nor user2 of the
\* match it addresses
OutsiderSends ==
    /\ last'.op = "sendMessage"
    /\ last'.caller \in db.users
    /\ last'.matchId \in 1..Len(db.matches)
    /\ last'.caller \notin {db.matches[last'.matchId].user1,
                            db.matches[last'.matchId].user2}

C11_ListMarksAllRead ==
    [][(last'.op = "listMessages" /\ last'.status = 200)
       => /\ Len(db'.messages) = Len(db.messages)
          /\ \A i \in 1..Len(db.messages) :
               /\ db.messages[i].readBy \subseteq db'.messages[i].readBy
               /\ (db'.messages[i].match = last'.matchId
                     /\ db'.messages[i].sender # last'.caller)
                    => last'.caller \in db'.messages[i].readBy]_vars

\* the list just answered marked a message of the other participant that the
\* limit kept out of the page
C11_Witness ==
    /\ last.op = "listMessages" /\ last.status = 200
    /\ \E i \in 1..Len(db.messages) :
         /\ db.messages[i].match = last.matchId
         /\ db.messages[i].sender # last.caller
         /\ \A k \in 1..Len(last.returned) :
              last.returned[k] # db.messages[i].id
         /\ last.caller \in db.messages[i].readBy

MainPhotos(photos) == {i \in 1..Len(photos) : photos[i].isMain}

\* C12: with upload, delete and set-main requests served one after the other,
\* a user's photos are empty or hold exactly one main photo.
C12_OneMainPhoto ==
    \A u \in UserIds :
        db.photos[u] = <<>> \/ Cardinality(MainPhotos(db.photos[u])) = 1

\* the main photo has just been deleted and another photo is left
C12_Witness ==
    /\ last.op = "deletePhoto" /\ last.status = 200
    /\ \E i \in MainPhotos(last.before) :
         last.before[i].publicId = last.publicId
    /\ db.photos[last.caller] # <<>>

\* C13: a verify-email or reset-password request that presents a token
\* accepted earlier is answered 400 and changes no account.
C13_TokenAcceptedOnce ==
    [][(last'.op \in {"verifyEmail", "resetPassword"}
          /\ nreq' = nreq + 1
          /\ last'.token \in db.accepted)
       => /\ last'.status = 400
          /\ db'.accounts = db.accounts]_vars

\* a verification token accepted earlier has just been presented again and
\* refused
C13_Witness ==
    /\ last.op = "verifyEmail"
    /\ last.status = 400
    /\ last.token \in db.accepted

\* C14 (as stated): a request whose token names a user id without a record is
\* answered 401 and changes no stored record.
C14_UnknownUserGets401 ==
    [][(nreq' = nreq + 1 /\ last'.caller \notin db.users)
       => /\ last'.status = 401
          /\ db' = db]_vars

\* C15 (as stated): a user who is neither user1 nor user2 of an existing match
\* and asks for it is answered 404.
C15_OutsiderGetsNotFound ==
    [][(/\ last'.op = "getMatch"
        /\ nreq' = nreq + 1
        /\ last'.matchId \in 1..Len(db.matches)
        /\ last'.caller \notin {db.matches[last'.matchId].user1,
                                db.matches[last'.matchId].user2})
       => last'.status = 404]_vars

\* C16: a list never shows a confession of another college than the caller's;
\* and the list of all categories, first page, asked by a user of the college
\* of the confession just posted shows that confession with no comment and
\* none of the caller's reactions.
C16_FeedOfOwnCollege ==
    [][(last'.op = "listConfessions" /\ last'.status = 200
          /\ nreq' = nreq + 1)
       => /\ \A k \in 1..Len(last'.confessions) :
               db.confessions[last'.confessions[k].id].college
                 = College(last'.caller)
          /\ (/\ last.op = "createConfession" /\ last.status = 201
              /\ College(last.caller) = College(last'.caller)
              /\ last'.category = "all" /\ last'.page = 1)
             => \E k \in 1..Len(last'.confessions) :
                  /\ last'.confessions[k].id = last.id
                  /\ last'.confessions[k].commentCount = 0
                  /\ \A t \in ReactionTypes :
                       ~last'.confessions[k].userReactions[t]]_vars

\* another user of the poster's college has just been shown the confession
\* while a confession of the other college is stored
C16_Witness ==
    /\ last.op = "listConfessions" /\ last.status = 200
    /\ \E k \in 1..Len(last.confessions) :
         /\ db.confessions[last.confessions[k].id].userId # last.caller
         /\ last.confessions[k].commentCount = 0
    /\ \E i \in 1..Len(db.confessions) :
         db.confessions[i].college # College(last.caller)

\* the comments and replies of the confessions were all posted by users of
\* the confession's college
PostedBySameCollege(w) ==
    \A c \in 1..Len(w.confessions) :
        \A k \in 1..Len(w.confessions[c].comments) :
            LET comment == w.confessions[c].comments[k] IN
            /\ comment.userId \in w.users
            /\ College(comment.userId) = w.confessions[c].college
            /\ \A j \in 1..Len(comment.replies) :
                 /\ comment.replies[j].userId \in w.users
                 /\ College(comment.replies[j].userId)
                      = w.confessions[c].college

\* C17: a comment or reply request of a user of another college than the
\* confession's is refused and leaves the confessions as they were; every
\* stored comment and reply was posted by a user of the confession's college.
C17_CommentsOfOwnCollege ==
    [][/\ PostedBySameCollege(db')
       /\ (/\ last'.op \in {"addComment", "addReply"}
           /\ nreq' = nreq + 1
           /\ last'.caller \in db.users
           /\ last'.id \in 1..Len(db.confessions)
           /\ College(last'.caller) # db.confessions[last'.id].college)
          => /\ last'.status \in {400, 403, 404}
             /\ db'.confessions = db.confessions]_vars

\* a reply to a stored comment by a user of another college has just been
\* refused
C17_Witness ==
    /\ last.op = "addReply" /\ last.status = 403
    /\ last.commentId \in 1..Len(db.confessions[last.id].comments)
    /\ College(last.caller) # db.confessions[last.id].college

\* C18 (as stated): the unreadCount of the unread-count response and of every
\* list response is the number of stored unread notifications of the caller.
C18_UnreadCountIsLive ==
    (last.op \in {"unreadCount", "listNotifications"} /\ last.status = 200)
    => last.unreadCount
         = Cardinality({i \in 1..Len(db.notifs) :
                          /\ db.notifs[i].recipient = last.caller
                          /\ ~db.notifs[i].isRead})

\* a swipe request between a and b is still being served
InFlightBetween(a, b) ==
    \E p \in Procs : /\ rq[p].op = "swipe"
                      /\ {rq[p].caller, rq[p].target} = {a, b}

\* a like or superlike of b by a is stored
LikeStored(w, a, b) ==
    \E i \in SwipeRecords(w, a, b) : w.swipes[i].action \in Likes

\* C19: whatever the interleaving, once the like of B by A and the like of A
\* by B are both stored and no swipe request of the pair is still being
\* served, the pair has an active match.
C19_MutualLikesMatch ==
    \A a \in UserIds : \A b \in UserIds \ {a} :
        (/\ LikeStored(db, a, b)
         /\ LikeStored(db, b, a)
         /\ ~InFlightBetween(a, b))
        => ActiveMatches(db, a, b) # {}

\* two likes were served together and the one match of the pair was created
\* by the request whose swipe was stored first: it looked for the reciprocal
\* swipe after the other request had stored it
C19_Witness ==
    /\ NoneInFlight
    /\ Len(db.swipes) = 2 /\ Len(db.matches) = 1
    /\ LikeStored(db, db.swipes[1].swiped, db.swipes[1].swiper)
    /\ db.matches[1].user1 = db.swipes[1].swiper

\* C20 (as stated): once no swipe request of a pair is being served, every
\* active match of the pair has its match notification for each of the two
\* users, whether the requests were answered 200 or 500.
C20_MatchWithNotifications ==
    \A i \in 1..Len(db.matches) :
        (db.matches[i].status = "active"
           /\ ~InFlightBetween(db.matches[i].user1, db.matches[i].user2))
        => \A u \in {db.matches[i].user1, db.matches[i].user2} :
              \E k \in 1..Len(db.notifs) :
                  /\ db.notifs[k].type = "match"
                  /\ db.notifs[k].matchId = i
                  /\ db.notifs[k].recipient = u

\* C21: a like or superlike that finds the reciprocal like and an active match
\* of the pair adds no match and no notification and reports that match.
C21_ExistingMatchReported ==
    [][(/\ Swiped(last', Likes)
        /\ nreq' = nreq + 1
        /\ LikeStored(db, last'.target, last'.caller)
        /\ ActiveMatches(db, last'.caller, last'.target) # {})
       => /\ db'.matches = db.matches
          /\ db'.notifs = db.notifs
          /\ last'.isMatch
          /\ last'.matchId \in ActiveMatches(db, last'.caller,
                                              last'.target)]_vars

\* a like repeated after the pair had matched has just been answered with the
\* match, the stores holding the one match and its two notifications
C21_Witness ==
    /\ Swiped(last, Likes) /\ last.isMatch
    /\ nreq = 3
    /\ Len(db.swipes) = 2 /\ Len(db.matches) = 1 /\ Len(db.notifs) = 2

\* likes between users, then messages sent, marked read and deleted, one
\* request at a time
MaxThreadReq == 5

ThreadSwipe ==
    /\ Len(db.swipes) < MaxMsgSwipes
    /\ \E c \in UserIds : \E t \in UserIds \ {c} :
         Serve(SwipeBegin(db, c, t, "like"), MaxThreadReq)

ThreadSend ==
    \E c \in UserIds, m \in 1..Len(db.matches) :
        Serve(SendBegin(db, c, m, "hey"), MaxThreadReq)

MarkMessageRead ==
    \E c \in UserIds, i \in 1..db.msgSeq :
        Serve(MarkMessageReadBegin(db, c, i), MaxThreadReq)

DeleteMessage ==
    \E c \in UserIds, i \in 1..db.msgSeq :
        Serve(DeleteMessageBegin(db, c, i), MaxThreadReq)

ThreadNext == ThreadSwipe \/ ThreadSend \/ MarkMessageRead \/ DeleteMessage

ThreadSpec == Init /\ [][ThreadNext]_vars

\* likes between users, then messages, match lists and unmatch requests, one
\* request at a time
MaxUnmatchReq == 5

UnmatchSwipe ==
    /\ Len(db.swipes) < MaxMsgSwipes
    /\ \E c \in UserIds : \E t \in UserIds \ {c} :
         Serve(SwipeBegin(db, c, t, "like"), MaxUnmatchReq)

UnmatchSend ==
    \E c \in UserIds, m \in 1..Len(db.matches) :
        Serve(SendBegin(db, c, m, "hey"), MaxUnmatchReq)

UnmatchRequest ==
    \E c \in UserIds, m \in 1..Len(db.matches), reason \in {"not interested"} :
        Serve(Unmatch(db, c, m, reason), MaxUnmatchReq)

GetMatchesRequest ==
    \E c \in UserIds : Serve(GetMatches(db, c, 1), MaxUnmatchReq)

UnmatchNext ==
    UnmatchSwipe \/ UnmatchSend \/ UnmatchRequest \/ GetMatchesRequest

UnmatchSpec == Init /\ [][UnmatchNext]_vars

\* the messages of a match
MessagesOf(w, matchId) ==
    Matching(w.messages, LAMBDA d : d.match = matchId)

\* C22 (as stated): once no send request of a match is being served, the
\* lastMessage of the match has the content and sender of a message of the
\* match that none is newer than.
C22_LastMessageIsNewest ==
    \A m \in 1..Len(db.matches) :
        (/\ MessagesOf(db, m) # {}
         /\ ~\E p \in Procs : rq[p].op = "sendMessage" /\ rq[p].matchId = m)
        => \E i \in MessagesOf(db, m) :
              /\ \A j \in MessagesOf(db, m) :
                    db.messages[j].createdAt <= db.messages[i].createdAt
              /\ db.matches[m].lastMessage # None
              /\ db.matches[m].lastMessage.content = db.messages[i].content
              /\ db.matches[m].lastMessage.sender = db.messages[i].sender

\* C23 (as stated): with photo likes served one after the other, the likeCount
\* of every photo is the number of entries of its likes, and no user id is in
\* the likes twice.
C23_LikeCountInLockstep ==
    \A u \in UserIds :
        \A i \in 1..Len(db.photos[u]) :
            LET photo == db.photos[u][i] IN
            /\ photo.likeCount = Len(photo.likes)
            /\ \A j, k \in 1..Len(photo.likes) :
                 photo.likes[j] = photo.likes[k] => j = k

\* C24 (as stated): every user in the readBy of a message is user1 or user2
\* of the match the message belongs to.
C24_ReadersAreParticipants ==
    \A i \in 1..Len(db.messages) :
        db.messages[i].readBy \subseteq
            {db.matches[db.messages[i].match].user1,
             db.matches[db.messages[i].match].user2}

\* C26 (as stated): the lastMessage of a match, when set, has the content and
\* sender of a message of the match that is stored.
C26_LastMessageExists ==
    \A m \in 1..Len(db.matches) :
        db.matches[m].lastMessage # None
        => \E i \in MessagesOf(db, m) :
              /\ db.messages[i].content = db.matches[m].lastMessage.content
              /\ db.messages[i].sender = db.matches[m].lastMessage.sender

\* C30: a message is removed only by a delete-message request of its sender
\* that is answered with success; a delete-message request for a stored
\* message by any other user, the other participant of the match included, is
\* answered with 404 and leaves the messages, their readBy included, as they
\* were.
C30_OnlySenderDeletes ==
    [][/\ \A i \in 1..Len(db.messages) :
            (~\E j \in 1..Len(db'.messages) :
                 db'.messages[j].id = db.messages[i].id)
            => /\ nreq' = nreq + 1
               /\ last'.op = "deleteMessage"
               /\ last'.status = 200
               /\ last'.messageId = db.messages[i].id
               /\ last'.caller = db.messages[i].sender
       /\ (/\ nreq' = nreq + 1
           /\ last'.op = "deleteMessage"
           /\ \E i \in 1..Len(db.messages) :
                 /\ db.messages[i].id = last'.messageId
                 /\ db.messages[i].sender # last'.caller)
          => /\ last'.status = 404
             /\ db'.messages = db.messages]_vars

\* the other participant of a match was refused the deletion of a message that
\* somebody has read
C30_Witness ==
    /\ last.op = "deleteMessage"
    /\ last.status = 404
    /\ \E i \in 1..Len(db.messages) :
          /\ db.messages[i].id = last.messageId
          /\ db.messages[i].sender # last.caller
          /\ last.caller \in {db.matches[db.messages[i].match].user1,
                              db.matches[db.messages[i].match].user2}
          /\ last.caller \in db.messages[i].readBy

\* C25 (as stated): a react request of a registered user of another college
\* than the confession's is refused, and leaves the reactions of the confession
\* as they were.
C25_ReactOfOwnCollege ==
    [][(/\ nreq' = nreq + 1
        /\ last'.op = "react"
        /\ last'.caller \in db.users
        /\ last'.id \in 1..Len(db.confessions)
        /\ College(last'.caller) # db.confessions[last'.id].college)
       => /\ last'.status \in {403, 404}
          /\ db'.confessions[last'.id].reactions
                = db.confessions[last'.id].reactions]_vars

C28_SameAnswerWhetherRegistered ==
    \A email \in UserIds :
        LET registered == ForgotPassword(db, email).out
            unknown == ForgotPassword([db EXCEPT !.users = @ \ {email}],
                                      email).out
        IN  /\ email \in db.users
            /\ registered.status = unknown.status
            /\ registered.body = unknown.body

\* a forgot-password request for a registered address has stored a reset token
\* and been answered
C28_Witness ==
    /\ last.op = "forgotPassword"
    /\ last.email \in db.users
    /\ db.accounts[last.email].resetPasswordToken # 0
    /\ last = ForgotPassword([db EXCEPT !.users = @ \ {last.email}],
                             last.email).out

\* C29: no user has two verification tokens that verify-email accepts, and a
\* token drawn so far that is not the one stored for an unverified user does
\* not verify the user; a resend-verification answered with success stores a
\* token that was never issued before, so every token issued to the user
\* earlier is rejected from then on; a resend-verification for a verified user
\* is answered 400 and issues no token; a verified user stays verified.
C29_OneVerificationToken ==
    [][/\ \A u \in UserIds :
            /\ Cardinality({t \in 1..db'.tokenSeq :
                              u \in FindByVerificationToken(db', t)}) <= 1
            /\ \A t \in 1..db'.tokenSeq :
                  (/\ ~db'.accounts[u].isVerified
                   /\ t # db'.accounts[u].verificationToken)
                  => ~Run(VerifyEmailBegin(db', t)).db.accounts[u].isVerified
            /\ db.accounts[u].isVerified => db'.accounts[u].isVerified
       /\ (/\ nreq' = nreq + 1
           /\ last'.op = "resendVerification"
           /\ last'.status = 200)
          => /\ ~db.accounts[last'.email].isVerified
             /\ db'.accounts[last'.email].verificationToken
                   \notin 1..db.tokenSeq
             /\ \A t \in 1..db.tokenSeq :
                   Run(VerifyEmailBegin(db', t)).out.status = 200
                   => ~Run(VerifyEmailBegin(db', t)).db
                          .accounts[last'.email].isVerified
       /\ (/\ nreq' = nreq + 1
           /\ last'.op = "resendVerification"
           /\ last'.email \in db.users
           /\ db.accounts[last'.email].isVerified)
          => /\ last'.status = 400
             /\ db' = db]_vars

\* the token a user registered with has just been refused, because a
\* resend-verification replaced it, while the user is unverified and the
\* replacement has not expired
C29_Witness ==
    /\ last.op = "verifyEmail"
    /\ last.status = 400
    /\ last.token \in db.users
    /\ ~db.accounts[last.token].isVerified
    /\ db.accounts[last.token].verificationToken > NumUsers
    /\ db.accounts[last.token].verificationTokenExpires > db.clock

====
